---- MODULE Spec2Model ----
(***************************************************************************)
(* PKCS#8 private-key containers: the unencrypted PrivateKeyInfo and the   *)
(* PBES2 EncryptedPrivateKeyInfo codec (ParsePKCS8PrivateKey,              *)
(* ConvertPrivateKeyToPKCS8) and the PBKDF2 key-derivation parameters      *)
(* (kdf_pbkdf2.go).                                                        *)
(*                                                                         *)
(* Byte strings are sequences of naturals 0..255.  DER is modelled at the  *)
(* tag-length-value level (lengths below 256).  The library primitives the *)
(* package calls (encoding/asn1, crypto/x509, crypto/aes, crypto/cipher,   *)
(* x/crypto/pbkdf2) are modelled by what they do at each call site; the    *)
(* block cipher and the hash are small keyed maps with the algebra of the  *)
(* real ones (invertible per key, every byte of a block depends on every   *)
(* other, HMAC zero-pads its key).                                         *)
(***************************************************************************)
EXTENDS Integers, Sequences, FiniteSets, TLC

\* ------------------------------------------------------------------ bounds
\* Largest byte value a password is drawn from (passwords have <= 2 bytes).
MaxPwByte == 1
\* Number of distinct outcomes of one read of crypto/rand.
MaxRand == 2
\* Largest spare capacity (cap - len) the buffer returned by asn1.Marshal has.
MaxSpare == 16
\* Number of RegisterKDF calls a run makes after package initialization.
MaxRegs == 2

\* --------------------------------------------------------- byte sequences
RECURSIVE SumSeq(_)
SumSeq(s) == IF s = <<>> THEN 0 ELSE Head(s) + SumSeq(Tail(s))

RECURSIVE Flatten(_)
Flatten(ss) == IF ss = <<>> THEN <<>> ELSE Head(ss) \o Flatten(Tail(ss))

\* The function f over 1..n as a sequence value.
AsSeq(f) == f \o <<>>

Repeat(b, n) == AsSeq([i \in 1..n |-> b])

Drop(s, n) == SubSeq(s, n + 1, Len(s))

Take(s, n) == SubSeq(s, 1, n)

Mod256(x) == ((x % 256) + 256) % 256

\* ------------------------------------------------------- object identifiers
oidPublicKeyRSA == <<1, 2, 840, 113549, 1, 1, 1>>
oidPublicKeyDSA == <<1, 2, 840, 10040, 4, 1>>
oidPublicKeyECDSA == <<1, 2, 840, 10045, 2, 1>>
oidNamedCurveP224 == <<1, 3, 132, 0, 33>>
oidNamedCurveP256 == <<1, 2, 840, 10045, 3, 1, 7>>
oidNamedCurveP384 == <<1, 3, 132, 0, 34>>
oidNamedCurveP521 == <<1, 3, 132, 0, 35>>
oidPKCS5PBKDF2 == <<1, 2, 840, 113549, 1, 5, 12>>
oidPBES2 == <<1, 2, 840, 113549, 1, 5, 13>>
oidAES256CBC == <<2, 16, 840, 1, 101, 3, 4, 1, 42>>
oidHMACWithMD5 == <<1, 2, 840, 113549, 2, 5>>
oidHMACWithSHA1 == <<1, 2, 840, 113549, 2, 7>>
oidHMACWithSHA224 == <<1, 2, 840, 113549, 2, 8>>
oidHMACWithSHA256 == <<1, 2, 840, 113549, 2, 9>>
oidHMACWithSHA384 == <<1, 2, 840, 113549, 2, 10>>
oidHMACWithSHA512 == <<1, 2, 840, 113549, 2, 11>>
oidHMACWithSHA512_224 == <<1, 2, 840, 113549, 2, 12>>
oidHMACWithSHA512_256 == <<1, 2, 840, 113549, 2, 13>>
\* Identifiers the package does not know, as other producers emit them:
\* DES-EDE3-CBC (the encryptedRSA2048des3 fixture), PBES1 pbeWithMD5AndDES-CBC,
\* scrypt, and an HMAC the package has no hash for (hmacWithGOST).
oidDESEDE3CBC == <<1, 2, 840, 113549, 3, 7>>
oidPBES1 == <<1, 2, 840, 113549, 1, 5, 3>>
oidScrypt == <<1, 3, 6, 1, 4, 1, 11591, 4, 11>>
oidHMACUnknown == <<1, 2, 643, 2, 2, 10>>

\* ------------------------------------------------------------ DER encoding
TagInteger == 2
TagOctetString == 4
TagNull == 5
TagOID == 6
TagSequence == 48
TagContext0 == 160

EncodeLength(n) == IF n < 128 THEN <<n>> ELSE <<129, n>>

TLV(tag, content) == <<tag>> \o EncodeLength(Len(content)) \o content

\* Minimal big-endian two's-complement content of a non-negative integer.
IntBytes(n) ==
  IF n < 128 THEN <<n>>
  ELSE IF n < 32768 THEN <<n \div 256, n % 256>>
  ELSE <<n \div 65536, (n \div 256) % 256, n % 256>>

EncInt(n) == TLV(TagInteger, IntBytes(n))

EncOctets(b) == TLV(TagOctetString, b)

EncSeq(parts) == TLV(TagSequence, Flatten(parts))

\* Base-128 content of one OID arc.
EncodeArc(n) ==
  IF n < 128 THEN <<n>>
  ELSE IF n < 16384 THEN <<128 + (n \div 128), n % 128>>
  ELSE <<128 + (n \div 16384), 128 + ((n \div 128) % 128), n % 128>>

EncOID(oid) ==
  TLV(TagOID, EncodeArc(40 * oid[1] + oid[2])
              \o Flatten([i \in 1..(Len(oid) - 2) |-> EncodeArc(oid[i + 2])]))

EncNull == <<TagNull, 0>>

\* ------------------------------------------------------------ DER decoding
Fail == [ok |-> FALSE, tag |-> 0, val |-> <<>>, rest |-> <<>>]

\* One tag-length-value element from the front of b.
ReadTLV(b) ==
  IF Len(b) < 2 THEN Fail
  ELSE LET long == b[2] >= 128
           hdr == IF long THEN 3 ELSE 2
           n == IF long THEN (IF Len(b) >= 3 THEN b[3] ELSE 0) ELSE b[2]
       IN IF (long /\ (b[2] # 129 \/ Len(b) < 3 \/ n < 128)) \/ Len(b) < hdr + n
          THEN Fail
          ELSE [ok |-> TRUE, tag |-> b[1], val |-> SubSeq(b, hdr + 1, hdr + n),
                rest |-> Drop(b, hdr + n)]

NoFields == [ok |-> FALSE, val |-> <<>>, rest |-> <<>>]

ConsField(v, r) == [ok |-> r.ok, val |-> <<v>> \o r.val, rest |-> r.rest]

\* The elements at the front of b whose tags are `tags`, in that order: their
\* contents, and the bytes that follow them, which are not looked at.
RECURSIVE Fields(_, _)
RECURSIVE FieldsFrom(_, _)
Fields(b, tags) ==
  IF tags = <<>> THEN [ok |-> TRUE, val |-> <<>>, rest |-> b]
  ELSE FieldsFrom(ReadTLV(b), tags)

FieldsFrom(e, tags) ==
  IF ~(e.ok /\ e.tag = Head(tags)) THEN NoFields
  ELSE ConsField(e.val, Fields(e.rest, Tail(tags)))

\* Value of INTEGER content (non-negative values only are used).
RECURSIVE BytesToInt(_)
BytesToInt(c) ==
  IF c = <<>> THEN 0 ELSE 256 * BytesToInt(Take(c, Len(c) - 1)) + c[Len(c)]

IntOK(c) == c # <<>> /\ c[1] < 128 /\ (Len(c) = 1 \/ c[1] # 0 \/ c[2] >= 128)

\* Arcs of OID content: base-128 groups, the first group split in two.
RECURSIVE DecodeArcs(_, _)
DecodeArcs(c, acc) ==
  IF c = <<>> THEN <<>>
  ELSE IF c[1] >= 128 THEN DecodeArcs(Tail(c), acc * 128 + (c[1] - 128))
  ELSE <<acc * 128 + c[1]>> \o DecodeArcs(Tail(c), 0)

DecodeOID(c) ==
  LET a == DecodeArcs(c, 0)
  IN IF a = <<>> THEN <<>>
     ELSE IF a[1] < 80 THEN <<a[1] \div 40, a[1] % 40>> \o Tail(a)
     ELSE <<2, a[1] - 80>> \o Tail(a)

OIDOK(c) == c # <<>> /\ c[Len(c)] < 128

\* ------------------------------------------------- key derivation (PBKDF2)
\* Hash functions newHashFromPRF can return, numbered to seed the toy PRF.
HashId(h) ==
  CASE h = "sha1" -> 1 [] h = "md5" -> 2 [] h = "sha224" -> 3 [] h = "sha256" -> 4
    [] h = "sha384" -> 5 [] h = "sha512" -> 6 [] h = "sha512_224" -> 7
    [] h = "sha512_256" -> 8 [] OTHER -> 0

\* HMAC pads its key with zero bytes to the hash's block size (RFC 2104): the
\* padded block read as a little-endian number, which trailing zeros leave alone.
RECURSIVE HMACKey(_)
HMACKey(pw) == IF pw = <<>> THEN 0 ELSE Head(pw) + 256 * HMACKey(Tail(pw))

\* pbkdf2.Key(password, salt, iter, keyLen, h): keyLen bytes that depend on the
\* HMAC key, the salt, the iteration count and the hash; a shorter request is a
\* prefix of a longer one.
PBKDF2Key(password, salt, iter, keyLen, h) ==
  LET seed == (7 * HMACKey(password) + 3 * SumSeq(salt) + 5 * iter + 11 * HashId(h)) % 251
  IN AsSeq([i \in 1..keyLen |-> (seed + i) % 256])

\* ------------------------------------------------------ block cipher, CBC
\* aes.BlockSize
BlockSize == 16
\* AES-256 key size in bytes.
KeySize == 32
\* DES-EDE3-CBC block size (other producers' containers only).
DESBlockSize == 8

\* The keyed block permutation and its inverse: every byte of the output
\* depends on the key and on every byte of the input, and conversely.
EncBlock(kb, x) ==
  LET y == AsSeq([j \in 1..Len(x) |-> IF j = 1 THEN 0 ELSE Mod256(x[j] + x[1] + 2 * kb)])
      s == SumSeq(y)
  IN AsSeq([j \in 1..Len(x) |-> IF j = 1 THEN Mod256(x[1] + kb + s) ELSE y[j]])

DecBlock(kb, y) ==
  LET u == Mod256(y[1] - SumSeq(Tail(y)))
  IN AsSeq([j \in 1..Len(y) |-> IF j = 1 THEN Mod256(u - kb) ELSE Mod256(y[j] - u - kb)])

\* Bytewise sum and difference of two blocks (the toy cipher's XOR).
AddBlock(x, y) == AsSeq([j \in 1..Len(x) |-> Mod256(x[j] + y[j])])

SubBlock(x, y) == AsSeq([j \in 1..Len(x) |-> Mod256(x[j] - y[j])])

RECURSIVE CBCEncryptFrom(_, _, _)
CBCEncryptFrom(kb, prev, src) ==
  IF src = <<>> THEN <<>>
  ELSE LET c == EncBlock(kb, AddBlock(Take(src, Len(prev)), prev))
       IN c \o CBCEncryptFrom(kb, c, Drop(src, Len(prev)))

RECURSIVE CBCDecryptFrom(_, _, _)
CBCDecryptFrom(kb, prev, src) ==
  IF src = <<>> THEN <<>>
  ELSE LET c == Take(src, Len(prev))
       IN SubBlock(DecBlock(kb, c), prev) \o CBCDecryptFrom(kb, c, Drop(src, Len(prev)))

\* cipher.NewCBCEncrypter(block, iv).CryptBlocks(dst, src), Len(src) a multiple
\* of the block size and Len(iv) the block size.
CBCEncrypt(key, iv, src) == CBCEncryptFrom(key[1], iv, src)

\* cipher.NewCBCDecrypter(block, iv).CryptBlocks(dst, src), same preconditions.
CBCDecrypt(key, iv, src) == CBCDecryptFrom(key[1], iv, src)

\* ------------------------------------------------------------- native keys
NoKey == [kind |-> "nil", curve |-> "none", N |-> 0, E |-> 0, D |-> 0, P |-> 0, Q |-> 0]

RSAKey(p, q, e, d) ==
  [kind |-> "rsa", curve |-> "none", N |-> p * q, E |-> e, D |-> d, P |-> p, Q |-> q]

ECKey(c, d) ==
  [kind |-> "ecdsa", curve |-> c, N |-> 0, E |-> 0, D |-> d, P |-> 0, Q |-> 0]

\* *rsa.PrivateKey and *ecdsa.PrivateKey values over the four named curves.
SupportedKeys ==
  {RSAKey(3, 11, 3, 7), RSAKey(5, 11, 3, 27),
   ECKey("P224", 5), ECKey("P256", 9), ECKey("P384", 12), ECKey("P521", 14)}

\* An ECDSA key over a curve that is none of the four, and a key of another
\* type (ed25519.PrivateKey, *dsa.PrivateKey, ...).
UnsupportedKeys ==
  {ECKey("secp256k1", 6),
   [kind |-> "ed25519", curve |-> "none", N |-> 0, E |-> 0, D |-> 3, P |-> 0, Q |-> 0]}

Keys == SupportedKeys \cup UnsupportedKeys

NoOID == <<>>

oidFromNamedCurve(curve) ==
  CASE curve = "P224" -> [oid |-> oidNamedCurveP224, ok |-> TRUE]
    [] curve = "P256" -> [oid |-> oidNamedCurveP256, ok |-> TRUE]
    [] curve = "P384" -> [oid |-> oidNamedCurveP384, ok |-> TRUE]
    [] curve = "P521" -> [oid |-> oidNamedCurveP521, ok |-> TRUE]
    [] OTHER -> [oid |-> NoOID, ok |-> FALSE]

\* crypto/x509 namedCurveFromOID.
namedCurveFromOID(oid) ==
  CASE oid = oidNamedCurveP224 -> "P224"
    [] oid = oidNamedCurveP256 -> "P256"
    [] oid = oidNamedCurveP384 -> "P384"
    [] oid = oidNamedCurveP521 -> "P521"
    [] OTHER -> "none"

\* x509.MarshalPKCS1PrivateKey: SEQUENCE {version 0, N, E, D, P, Q} (the
\* precomputed CRT values that follow are left out).
MarshalPKCS1PrivateKey(k) ==
  EncSeq(<<EncInt(0), EncInt(k.N), EncInt(k.E), EncInt(k.D), EncInt(k.P), EncInt(k.Q)>>)

\* x509.MarshalECPrivateKey: SEQUENCE {version 1, privateKey, [0] curve OID}
\* (the optional public key is left out); an error for an unknown curve.
MarshalECPrivateKey(k) ==
  LET c == oidFromNamedCurve(k.curve)
  IN IF ~c.ok THEN [der |-> <<>>, err |-> "x509: unknown elliptic curve"]
     ELSE [der |-> EncSeq(<<EncInt(1), EncOctets(<<k.D>>),
                            TLV(TagContext0, EncOID(c.oid))>>),
           err |-> ""]

\* ------------------------------------------------------------ serialization
\* asn1.Marshal(privateKeyInfo{Version, PrivateKeyAlgorithm, PrivateKey}).
MarshalPrivateKeyInfo(version, algorithm, privateKey) ==
  EncSeq(<<EncInt(version),
           EncSeq([i \in 1..Len(algorithm) |-> EncOID(algorithm[i])]),
           EncOctets(privateKey)>>)

\* The switch has no default case: a key of another type leaves pkey at its
\* zero value, which is marshalled like any other.
convertPrivateKeyToPKCS8(priv) ==
  IF priv.kind = "ecdsa" THEN
    LET eckey == MarshalECPrivateKey(priv)
        c == oidFromNamedCurve(priv.curve)
    IN IF eckey.err # "" THEN [der |-> <<>>, err |-> eckey.err]
       ELSE IF ~c.ok THEN [der |-> <<>>, err |-> "pkcs8: unknown elliptic curve"]
       ELSE [der |-> MarshalPrivateKeyInfo(1, <<oidPublicKeyECDSA, c.oid>>, eckey.der),
             err |-> ""]
  ELSE IF priv.kind = "rsa" THEN
    [der |-> MarshalPrivateKeyInfo(0, <<oidPublicKeyRSA>>, MarshalPKCS1PrivateKey(priv)),
     err |-> ""]
  ELSE [der |-> MarshalPrivateKeyInfo(0, <<>>, <<>>), err |-> ""]

\* iter := 2048
IterationCount == 2048
\* make([]byte, 8)
SaltSize == 8

\* One read of rand.Reader into a buffer of n bytes, outcome r.
RandRead(r, n) == AsSeq([i \in 1..n |-> (29 * r + i) % 256])

\* asn1.Marshal(encryptedPrivateKeyInfo{...}) of the nested structures.
MarshalEncryptedPrivateKeyInfo(idPBES2, kdfAlgo, kdfParams, encAlgo, iv, data) ==
  EncSeq(<<EncSeq(<<EncOID(idPBES2),
                    EncSeq(<<EncSeq(<<EncOID(kdfAlgo), EncSeq(kdfParams)>>),
                             EncSeq(<<EncOID(encAlgo), EncOctets(iv)>>)>>)>>),
           EncOctets(data)>>)

\* PKCS#5 padding as the encrypt path writes it: the slice is grown in place,
\* which needs the padding bytes to fit in the buffer's capacity.
PadInPlace(pkey, spare) ==
  LET padding == BlockSize - (Len(pkey) % BlockSize)
  IN IF padding > 0
     THEN IF padding > spare
          THEN [buf |-> <<>>, err |-> "panic: slice bounds out of range"]
          ELSE [buf |-> pkey \o Repeat(padding, padding), err |-> ""]
     ELSE [buf |-> pkey, err |-> ""]

\* rs, ri: outcomes of the two reads of rand.Reader; spare: cap - len of the
\* buffer convertPrivateKeyToPKCS8 returned.
convertPrivateKeyToPKCS8Encrypted(priv, password, rs, ri, spare) ==
  LET inner == convertPrivateKeyToPKCS8(priv)
      salt == RandRead(rs, SaltSize)
      iv == RandRead(ri, BlockSize)
      key == PBKDF2Key(password, salt, IterationCount, KeySize, "sha1")
      padded == PadInPlace(inner.der, spare)
  IN IF inner.err # "" THEN [der |-> <<>>, err |-> inner.err]
     ELSE IF padded.err # "" THEN [der |-> <<>>, err |-> padded.err]
     ELSE [der |-> MarshalEncryptedPrivateKeyInfo(
                     oidPBES2, oidPKCS5PBKDF2, <<EncOctets(salt), EncInt(IterationCount)>>,
                     oidAES256CBC, iv, CBCEncrypt(key, iv, padded.buf)),
           err |-> ""]

\* v is the variadic argument: <<>> when no password is passed, <<pw>> otherwise.
ConvertPrivateKeyToPKCS8(priv, v, rs, ri, spare) ==
  IF v = <<>> THEN convertPrivateKeyToPKCS8(priv)
  ELSE convertPrivateKeyToPKCS8Encrypted(priv, v[1], rs, ri, spare)

\* ------------------------------------------------------------------ parsing
KeyErr(e) == [key |-> NoKey, err |-> e]

\* asn1.Unmarshal(der, &priv) for the PKCS#1 structure: a SEQUENCE of integers.
UnmarshalPKCS1(der) ==
  LET top == Fields(der, <<TagSequence>>)
      f == Fields(top.val[1], Repeat(TagInteger, 6))
  IN IF ~(top.ok /\ f.ok /\ \A i \in 1..6 : IntOK(f.val[i]))
     THEN [ok |-> FALSE, rest |-> <<>>, n |-> Repeat(0, 6)]
     ELSE [ok |-> TRUE, rest |-> top.rest, n |-> [i \in 1..6 |-> BytesToInt(f.val[i])]]

PKCS1Key(priv) ==
  IF ~priv.ok THEN KeyErr("asn1: structure error")
  ELSE IF priv.rest # <<>> THEN KeyErr("asn1: syntax error: trailing data")
  ELSE IF priv.n[1] > 1 THEN KeyErr("x509: unsupported private key version")
  ELSE [key |-> [kind |-> "rsa", curve |-> "none", N |-> priv.n[2], E |-> priv.n[3],
                 D |-> priv.n[4], P |-> priv.n[5], Q |-> priv.n[6]],
        err |-> ""]

\* x509.ParsePKCS1PrivateKey: nothing may follow the SEQUENCE.
ParsePKCS1PrivateKey(der) == PKCS1Key(UnmarshalPKCS1(der))

\* The object identifier held by the element e, NoOID if e is not one.
OIDOf(e) == IF e.ok /\ e.tag = TagOID /\ OIDOK(e.val) THEN DecodeOID(e.val) ELSE NoOID

\* The object identifier inside the explicit [0] element e, NoOID without it.
Explicit0OID(e) == IF e.ok /\ e.tag = TagContext0 THEN OIDOf(ReadTLV(e.val)) ELSE NoOID

\* asn1.Unmarshal(der, &privKey) for ecPrivateKey.
UnmarshalECPrivateKey(der) ==
  LET top == Fields(der, <<TagSequence>>)
      f == Fields(top.val[1], <<TagInteger, TagOctetString>>)
  IN IF ~(top.ok /\ f.ok /\ IntOK(f.val[1]))
     THEN [ok |-> FALSE, Version |-> 0, PrivateKey |-> <<>>, NamedCurveOID |-> NoOID]
     ELSE [ok |-> TRUE, Version |-> BytesToInt(f.val[1]), PrivateKey |-> f.val[2],
           NamedCurveOID |-> Explicit0OID(ReadTLV(f.rest))]

ECKeyOn(curve, privKey) ==
  IF ~privKey.ok THEN KeyErr("x509: failed to parse EC private key")
  ELSE IF privKey.Version # 1 THEN KeyErr("x509: unknown EC private key version")
  ELSE IF curve = "none" THEN KeyErr("x509: unknown elliptic curve")
  ELSE [key |-> ECKey(curve, BytesToInt(privKey.PrivateKey)), err |-> ""]

ECKeyFrom(namedCurveOID, privKey) ==
  ECKeyOn(namedCurveFromOID(IF namedCurveOID # NoOID THEN namedCurveOID
                            ELSE privKey.NamedCurveOID),
          privKey)

\* x509 parseECPrivateKey(namedCurveOID, der): the curve named by the PKCS#8
\* algorithm parameters, else the one inside the key.
parseECPrivateKey(namedCurveOID, der) == ECKeyFrom(namedCurveOID, UnmarshalECPrivateKey(der))

\* asn1.Unmarshal(der, &privKey) for x509's pkcs8 structure: SEQUENCE {version,
\* AlgorithmIdentifier, OCTET STRING}; bytes after the SEQUENCE are not looked at.
UnmarshalPKCS8(der) ==
  LET top == Fields(der, <<TagSequence>>)
      f == Fields(top.val[1], <<TagInteger, TagSequence, TagOctetString>>)
      algo == Fields(f.val[2], <<TagOID>>)
  IN IF ~(top.ok /\ f.ok /\ IntOK(f.val[1]) /\ algo.ok /\ OIDOK(algo.val[1]))
     THEN [ok |-> FALSE, Algorithm |-> NoOID, Parameters |-> NoOID, PrivateKey |-> <<>>]
     ELSE [ok |-> TRUE, Algorithm |-> DecodeOID(algo.val[1]),
           Parameters |-> OIDOf(ReadTLV(algo.rest)), PrivateKey |-> f.val[3]]

PKCS8Key(privKey) ==
  IF ~privKey.ok THEN KeyErr("asn1: structure error")
  ELSE IF privKey.Algorithm = oidPublicKeyRSA THEN ParsePKCS1PrivateKey(privKey.PrivateKey)
  ELSE IF privKey.Algorithm = oidPublicKeyECDSA
  THEN parseECPrivateKey(privKey.Parameters, privKey.PrivateKey)
  ELSE KeyErr("x509: PKCS#8 wrapping contained private key with unknown algorithm")

\* x509.ParsePKCS8PrivateKey
x509ParsePKCS8PrivateKey(der) == PKCS8Key(UnmarshalPKCS8(der))

NoEncrypted ==
  [ok |-> FALSE, IdPBES2 |-> NoOID, IdPBKDF2 |-> NoOID, Salt |-> <<>>,
   IterationCount |-> 0, EncryAlgo |-> NoOID, IV |-> <<>>, EncryptedData |-> <<>>]

\* asn1.Unmarshal(der, &privKey) for encryptedPrivateKeyInfo and the structures
\* nested in it: every field is decoded by its declared type before any
\* identifier is looked at; extra elements and trailing bytes are not looked at.
UnmarshalEncryptedPrivateKeyInfo(der) ==
  LET top == Fields(der, <<TagSequence>>)
      f == Fields(top.val[1], <<TagSequence, TagOctetString>>)
      alg == Fields(f.val[1], <<TagOID, TagSequence>>)
      pbes2 == Fields(alg.val[2], <<TagSequence, TagSequence>>)
      kdf == Fields(pbes2.val[1], <<TagOID, TagSequence>>)
      kdfp == Fields(kdf.val[2], <<TagOctetString, TagInteger>>)
      enc == Fields(pbes2.val[2], <<TagOID, TagOctetString>>)
  IN IF ~(top.ok /\ f.ok /\ alg.ok /\ OIDOK(alg.val[1]) /\ pbes2.ok
          /\ kdf.ok /\ OIDOK(kdf.val[1]) /\ kdfp.ok /\ IntOK(kdfp.val[2])
          /\ enc.ok /\ OIDOK(enc.val[1]))
     THEN NoEncrypted
     ELSE [ok |-> TRUE, IdPBES2 |-> DecodeOID(alg.val[1]),
           IdPBKDF2 |-> DecodeOID(kdf.val[1]), Salt |-> kdfp.val[1],
           IterationCount |-> BytesToInt(kdfp.val[2]),
           EncryAlgo |-> DecodeOID(enc.val[1]), IV |-> enc.val[2],
           EncryptedData |-> f.val[2]]

\* key, err = x509.ParsePKCS8PrivateKey(encryptedKey): any error becomes the
\* one incorrect-password error.
\* The parser's own error reaches the caller.
OrParserError(parsed) == parsed

OrIncorrectPassword(parsed) ==
  IF parsed.err # "" THEN KeyErr("pkcs8: incorrect password") ELSE parsed

\* The AES-256-CBC case of the switch.  NewCBCDecrypter and CryptBlocks panic on
\* an IV or an input that is not whole blocks; the plaintext, padding included,
\* goes to x509.ParsePKCS8PrivateKey as it is.
DecryptAES256CBC(privKey, password) ==
  IF Len(privKey.IV) # BlockSize
  THEN KeyErr("panic: cipher.NewCBCDecrypter: IV length must equal block size")
  ELSE IF Len(privKey.EncryptedData) % BlockSize # 0
  THEN KeyErr("panic: crypto/cipher: input not full blocks")
  ELSE OrIncorrectPassword(x509ParsePKCS8PrivateKey(
         CBCDecrypt(PBKDF2Key(password, privKey.Salt, privKey.IterationCount, KeySize, "sha1"),
                    privKey.IV, privKey.EncryptedData)))

\* The body of ParsePKCS8PrivateKey once the container is unmarshalled.
DecryptPKCS8(privKey, password) ==
  IF ~privKey.ok THEN KeyErr("pkcs8: only PKCS #5 v2.0 supported")
  ELSE IF privKey.IdPBES2 # oidPBES2 THEN KeyErr("pkcs8: only PBES2 supported")
  ELSE IF privKey.IdPBKDF2 # oidPKCS5PBKDF2 THEN KeyErr("pkcs8: only PBKDF2 supported")
  ELSE IF privKey.EncryAlgo = oidAES256CBC THEN DecryptAES256CBC(privKey, password)
  ELSE KeyErr("pkcs8: only AES-256-CBC supported")

\* A call without a password decrypts under the empty password.
ParseUnderEmptyPassword(der, v) ==
  DecryptPKCS8(UnmarshalEncryptedPrivateKeyInfo(der), IF v = <<>> THEN <<>> ELSE v[1])

\* v is the variadic argument: <<>> when no password is passed, <<pw>> otherwise.
ParsePKCS8PrivateKey(der, v) ==
  IF v = <<>> THEN x509ParsePKCS8PrivateKey(der)
  ELSE DecryptPKCS8(UnmarshalEncryptedPrivateKeyInfo(der), v[1])

\* ------------------------------------------- containers of other producers
\* What another PKCS#8 implementation (the one that wrote the fixtures of
\* pkcs8_test.go) emits: the identifiers, the optional keyLength and prf of the
\* PBKDF2 parameters, and the shape of the algorithm parameters.  keyLen 0 and
\* prf NoOID mean absent.
Forms ==
  {f \in [outer : {oidPBES2, oidPBES1}, kdf : {oidPKCS5PBKDF2, oidScrypt},
          cipher : {oidAES256CBC, oidDESEDE3CBC}, shape : {"pbes2", "pbes1"},
          keyLen : {0, 16, KeySize},
          prf : {NoOID, oidHMACWithSHA1, oidHMACWithSHA256, oidHMACUnknown}] :
     /\ f.shape = "pbes1" =>
          f.outer = oidPBES1 /\ f.kdf = oidPKCS5PBKDF2 /\ f.cipher = oidAES256CBC
     /\ (f.keyLen # 0 \/ f.prf # NoOID) =>
          f.outer = oidPBES2 /\ f.kdf = oidPKCS5PBKDF2 /\ f.shape = "pbes2"}

NoForm ==
  [outer |-> NoOID, kdf |-> NoOID, cipher |-> NoOID, shape |-> "none", keyLen |-> 0,
   prf |-> NoOID]

\* The form ConvertPrivateKeyToPKCS8 itself writes.
OwnForm ==
  [outer |-> oidPBES2, kdf |-> oidPKCS5PBKDF2, cipher |-> oidAES256CBC, shape |-> "pbes2",
   keyLen |-> 0, prf |-> NoOID]

\* The hash the producer runs PBKDF2 with: the one its prf field names, HMAC-SHA1
\* when it writes none (RFC 8018).
ProducerHash(f) ==
  IF f.kdf # oidPKCS5PBKDF2 THEN "scrypt"
  ELSE IF f.prf = NoOID \/ f.prf = oidHMACWithSHA1 THEN "sha1"
  ELSE IF f.prf = oidHMACWithSHA256 THEN "sha256"
  ELSE "gost"

ProducerBlockSize(f) == IF f.cipher = oidAES256CBC THEN BlockSize ELSE DESBlockSize

ProducerKeySize(f) == IF f.cipher = oidAES256CBC THEN KeySize ELSE 24

\* The password the fixtures are encrypted under ("password").
FixturePassword == <<1>>

ProduceEncrypted(k, password, f) ==
  LET inner == convertPrivateKeyToPKCS8(k).der
      bs == ProducerBlockSize(f)
      pad == bs - (Len(inner) % bs)
      salt == RandRead(1, SaltSize)
      iv == RandRead(2, bs)
      key == PBKDF2Key(password, salt, IterationCount, ProducerKeySize(f), ProducerHash(f))
      data == CBCEncrypt(key, iv, inner \o Repeat(pad, pad))
      kdfParams ==
        IF f.kdf = oidPKCS5PBKDF2
        THEN <<EncOctets(salt), EncInt(IterationCount)>>
             \o (IF f.keyLen # 0 THEN <<EncInt(f.keyLen)>> ELSE <<>>)
             \o (IF f.prf # NoOID THEN <<EncSeq(<<EncOID(f.prf), EncNull>>)>> ELSE <<>>)
        ELSE <<EncOctets(salt), EncInt(IterationCount), EncInt(8), EncInt(1)>>
  IN IF f.shape = "pbes1"
     THEN EncSeq(<<EncSeq(<<EncOID(f.outer),
                            EncSeq(<<EncOctets(salt), EncInt(IterationCount)>>)>>),
                   EncOctets(data)>>)
     ELSE MarshalEncryptedPrivateKeyInfo(f.outer, f.kdf, kdfParams, f.cipher, iv, data)

\* -------------------------------------------------- kdf_pbkdf2.go, registry
NoHash == "none"

\* ai is the Algorithm of the PRF AlgorithmIdentifier, NoOID when the field is absent.
newHashFromPRF(ai) ==
  CASE Len(ai) = 0 \/ ai = oidHMACWithSHA1 -> [h |-> "sha1", err |-> ""]
    [] ai = oidHMACWithMD5 -> [h |-> "md5", err |-> ""]
    [] ai = oidHMACWithSHA224 -> [h |-> "sha224", err |-> ""]
    [] ai = oidHMACWithSHA256 -> [h |-> "sha256", err |-> ""]
    [] ai = oidHMACWithSHA384 -> [h |-> "sha384", err |-> ""]
    [] ai = oidHMACWithSHA512 -> [h |-> "sha512", err |-> ""]
    [] ai = oidHMACWithSHA512_224 -> [h |-> "sha512_224", err |-> ""]
    [] ai = oidHMACWithSHA512_256 -> [h |-> "sha512_256", err |-> ""]
    [] OTHER -> [h |-> NoHash, err |-> "pkcs8: unsupported hash function"]

\* type pbkdf2Params of kdf_pbkdf2.go; KeyLength 0 and PRF NoOID when absent.
EmptyPBKDF2Params == [Salt |-> <<>>, IterationCount |-> 0, KeyLength |-> 0, PRF |-> NoOID]

DeriveKey(p, password, size) ==
  LET h == newHashFromPRF(p.PRF)
  IN IF h.err # "" THEN [key |-> <<>>, err |-> h.err]
     ELSE IF p.KeyLength # size /\ p.KeyLength # 0
     THEN [key |-> <<>>, err |-> "pkcs8: key length missmatch"]
     ELSE [key |-> PBKDF2Key(password, p.Salt, p.IterationCount, size, h.h), err |-> ""]

\* h is the crypto.Hash of PBKDF2Opts.HMACHash.
newPRFParamFromHash(h) ==
  CASE h = "md5" -> [ai |-> oidHMACWithMD5, err |-> ""]
    [] h = "sha1" -> [ai |-> oidHMACWithSHA1, err |-> ""]
    [] h = "sha224" -> [ai |-> oidHMACWithSHA224, err |-> ""]
    [] h = "sha256" -> [ai |-> oidHMACWithSHA256, err |-> ""]
    [] h = "sha384" -> [ai |-> oidHMACWithSHA384, err |-> ""]
    [] h = "sha512" -> [ai |-> oidHMACWithSHA512, err |-> ""]
    [] h = "sha512_224" -> [ai |-> oidHMACWithSHA512_224, err |-> ""]
    [] h = "sha512_256" -> [ai |-> oidHMACWithSHA512_256, err |-> ""]
    [] OTHER -> [ai |-> NoOID, err |-> "pkcs8: unsupported hash function"]

\* The hashes newPRFParamFromHash has a case for; kdf_pbkdf2.go imports the
\* packages of all of them.
SupportedHashes ==
  {"md5", "sha1", "sha224", "sha256", "sha384", "sha512", "sha512_224", "sha512_256"}

\* Other values of crypto.Hash: SHA3_256, available if the program links its
\* package, and the zero value, which names no hash.
Hashes == SupportedHashes \cup {"sha3_256", "hash0"}

\* Whether h.New finds h registered in this build.
LinkedOutcomes(h) ==
  IF h \in SupportedHashes THEN {TRUE} ELSE IF h = "hash0" THEN {FALSE} ELSE BOOLEAN

\* A nil KDFParameters.
NilParams == [nil |-> TRUE]

\* type PBKDF2Opts
NoOpts == [SaltSize |-> 0, IterationCount |-> 0, HMACHash |-> "hash0"]

\* PBKDF2Opts.DeriveKey(password, salt, size).  pbkdf2.Key runs first and calls
\* p.HMACHash.New, which panics for a hash that is not linked in; only then
\* does newPRFParamFromHash look at the hash.
PBKDF2OptsDeriveKey(p, password, salt, size, linked) ==
  LET prfParam == newPRFParamFromHash(p.HMACHash)
  IN IF ~linked
     THEN [key |-> <<>>, params |-> NilParams,
           err |-> "panic: crypto: requested hash function is unavailable"]
     ELSE IF prfParam.err # "" THEN [key |-> <<>>, params |-> NilParams, err |-> prfParam.err]
     ELSE [key |-> PBKDF2Key(password, salt, p.IterationCount, size, p.HMACHash),
           params |-> [Salt |-> salt, IterationCount |-> p.IterationCount,
                       KeyLength |-> size, PRF |-> prfParam.ai],
           err |-> ""]

\* The optional KeyLength and PRF fields that follow Salt and IterationCount.
OptionalPRF(e) == IF e.ok /\ e.tag = TagSequence THEN OIDOf(ReadTLV(e.val)) ELSE NoOID

OptionalKDFFields(kl, rest) ==
  IF kl.ok /\ kl.tag = TagInteger /\ IntOK(kl.val)
  THEN [KeyLength |-> BytesToInt(kl.val), PRF |-> OptionalPRF(ReadTLV(kl.rest))]
  ELSE [KeyLength |-> 0, PRF |-> OptionalPRF(ReadTLV(rest))]

PBKDF2ParamsFrom(f, opt) ==
  [Salt |-> f.val[1], IterationCount |-> BytesToInt(f.val[2]),
   KeyLength |-> opt.KeyLength, PRF |-> opt.PRF]

\* asn1.Unmarshal of the content b of a PBKDF2-params SEQUENCE into pbkdf2Params.
UnmarshalPBKDF2Params(b) ==
  LET f == Fields(b, <<TagOctetString, TagInteger>>)
  IN IF ~(f.ok /\ IntOK(f.val[2])) THEN EmptyPBKDF2Params
     ELSE PBKDF2ParamsFrom(f, OptionalKDFFields(ReadTLV(f.rest), f.rest))

\* The parameters of keyDerivationFunc inside the container der, <<>> if the
\* container has no such place.
RawKDFParams(der) ==
  LET top == Fields(der, <<TagSequence>>)
      f == Fields(top.val[1], <<TagSequence, TagOctetString>>)
      alg == Fields(f.val[1], <<TagOID, TagSequence>>)
      pbes2 == Fields(alg.val[2], <<TagSequence, TagSequence>>)
      kdf == Fields(pbes2.val[1], <<TagOID, TagSequence>>)
  IN IF top.ok /\ f.ok /\ alg.ok /\ pbes2.ok /\ kdf.ok THEN kdf.val[2] ELSE <<>>

\* Identifiers a KDF can be registered under, and the factories there are.
KDFOIDs == {oidPKCS5PBKDF2, oidScrypt, oidPBES1}
Factories == {"pbkdf2Params", "scryptParams"}
NoFactory == "none"

EmptyRegistry == [o \in KDFOIDs |-> NoFactory]

RegisterKDF(reg, oid, factory) == [reg EXCEPT ![oid] = factory]

LookupKDF(reg, oid) == [found |-> reg[oid] # NoFactory, factory |-> reg[oid]]

\* resolve: the factory's empty parameter value, or UnsupportedKDF.
ResolveKDF(reg, oid) ==
  LET l == LookupKDF(reg, oid)
  IN IF l.found THEN [params |-> l.factory, err |-> ""]
     ELSE [params |-> NoFactory, err |-> "UnsupportedKDF"]

\* PBKDF2's factory registered under another identifier.
initUnderScrypt == RegisterKDF(EmptyRegistry, oidScrypt, "pbkdf2Params")

\* func init() of kdf_pbkdf2.go.
init == RegisterKDF(EmptyRegistry, oidPKCS5PBKDF2, "pbkdf2Params")

\* What the factory registered by init returns: new(pbkdf2Params).
NewParams(factory) ==
  IF factory = "pbkdf2Params" THEN EmptyPBKDF2Params
  ELSE [Salt |-> <<>>, N |-> 0, R |-> 0, P |-> 0]

\* ------------------------------------------------------------------- state
VARIABLES
  priv,         \* the native key the caller holds
  der,          \* the container bytes the caller holds
  made,         \* how der came about: who wrote it, under which password, changes
  ret,          \* what the last call of the package returned
  kdfRegistry,  \* the process-wide KDF registry
  regLog,       \* the RegisterKDF calls made since package initialization
  kdfRet        \* what the last registry or DeriveKey call returned

vars == <<priv, der, made, ret, kdfRegistry, regLog, kdfRet>>

\* Passwords: byte strings of at most two bytes.
Passwords ==
  {<<>>} \cup {<<a>> : a \in 0..MaxPwByte}
         \cup {<<a, b>> : a \in 0..MaxPwByte, b \in 0..MaxPwByte}

\* The variadic password argument: none, or one password.
PasswordArgs == {<<>>} \cup {<<pw>> : pw \in Passwords}

NoRet == [op |-> "none", v |-> <<>>, key |-> NoKey, err |-> ""]
NotMade == [by |-> "none", v |-> <<>>, mods |-> "none", form |-> NoForm]
NoKDFRet ==
  [op |-> "none", oid |-> NoOID, found |-> FALSE, factory |-> NoFactory,
   p |-> EmptyPBKDF2Params, password |-> <<>>, size |-> 0, key |-> <<>>, err |-> "",
   opts |-> NoOpts, salt |-> <<>>, back |-> [size |-> 0, key |-> <<>>, err |-> ""]]

codecVars == <<priv, der, made, ret>>
kdfVars == <<kdfRegistry, regLog, kdfRet>>

KDFIdle == kdfRegistry = init /\ regLog = <<>> /\ kdfRet = NoKDFRet
CodecIdle == priv = NoKey /\ der = <<>> /\ made = NotMade /\ ret = NoRet

Init ==
  /\ priv \in Keys
  /\ der = <<>> /\ made = NotMade /\ ret = NoRet
  /\ KDFIdle

\* ------------------------------------------------------- codec operations
\* ConvertPrivateKeyToPKCS8(priv, v...) returned r: the caller holds its bytes.
ConvertReturned(v, r) ==
  /\ der' = r.der
  /\ ret' = [op |-> "convert", v |-> v, key |-> NoKey, err |-> r.err]

\* ParsePKCS8PrivateKey(der, v...) returned r.
ParseReturned(v, r) == ret' = [op |-> "parse", v |-> v, key |-> r.key, err |-> r.err]


\* ConvertPrivateKeyToPKCS8(priv, v...)
Convert(v, rs, ri, spare) ==
  /\ made.by = "none"
  /\ ConvertReturned(v, ConvertPrivateKeyToPKCS8(priv, v, rs, ri, spare))
  /\ made' = [by |-> "convert", v |-> v, mods |-> "none",
              form |-> IF v = <<>> THEN NoForm ELSE OwnForm]
  /\ UNCHANGED <<priv, kdfVars>>

\* Another implementation hands over a container of the key.
Produce(f) ==
  /\ made.by = "none"
  /\ priv \in SupportedKeys
  /\ der' = ProduceEncrypted(priv, FixturePassword, f)
  /\ made' = [by |-> "producer", v |-> <<FixturePassword>>, mods |-> "none", form |-> f]
  /\ UNCHANGED <<priv, ret, kdfVars>>

\* Bytes are appended to the container before it is parsed.
AppendTrailing(b) ==
  /\ der # <<>> /\ made.mods = "none" /\ ret.op # "parse"
  /\ der' = der \o <<b>>
  /\ made' = [made EXCEPT !.mods = "trailing"]
  /\ UNCHANGED <<priv, ret, kdfVars>>

\* One byte of the ciphertext is changed: the first or the last byte of
\* encryptedData, which is the last field of the container.
Corrupt(first) ==
  /\ der # <<>> /\ made.mods = "none" /\ ret.op # "parse"
  /\ made.v # <<>> /\ made.form.shape = "pbes2"
  /\ LET n == Len(UnmarshalEncryptedPrivateKeyInfo(der).EncryptedData)
         i == IF first THEN Len(der) - n + 1 ELSE Len(der)
     IN der' = [der EXCEPT ![i] = Mod256(@ + 1)]
  /\ made' = [made EXCEPT !.mods = IF first THEN "corrupt-first" ELSE "corrupt-last"]
  /\ UNCHANGED <<priv, ret, kdfVars>>

\* The container privKey written again with a ciphertext that is not whole
\* blocks, or with an IV that is not one block.
MisalignKinds == {"short-data", "long-data", "short-iv"}

Misaligned(privKey, kind) ==
  MarshalEncryptedPrivateKeyInfo(
    privKey.IdPBES2, privKey.IdPBKDF2,
    <<EncOctets(privKey.Salt), EncInt(privKey.IterationCount)>>, privKey.EncryAlgo,
    IF kind = "short-iv" THEN Take(privKey.IV, DESBlockSize) ELSE privKey.IV,
    CASE kind = "short-data" -> Take(privKey.EncryptedData, Len(privKey.EncryptedData) - 1)
      [] kind = "long-data" -> privKey.EncryptedData \o <<0>>
      [] OTHER -> privKey.EncryptedData)

\* The caller receives a container of supported identifiers whose ciphertext or
\* IV has a length the cipher cannot take.
Misalign(kind) ==
  /\ der # <<>> /\ made.mods = "none" /\ ret.op # "parse"
  /\ made.v # <<>> /\ made.form = OwnForm
  /\ der' = Misaligned(UnmarshalEncryptedPrivateKeyInfo(der), kind)
  /\ made' = [made EXCEPT !.mods = kind]
  /\ UNCHANGED <<priv, ret, kdfVars>>

\* Tails of a whole number of blocks that are no PKCS#5 padding: a last byte of
\* 0, a last byte above the block size, bytes that are not all the count.
PaddingKinds == {"zero-padding", "big-padding", "mixed-padding"}

BadTail(n, kind) ==
  LET pad == BlockSize - (n % BlockSize)
  IN CASE kind = "zero-padding" -> Repeat(0, pad)
       [] kind = "big-padding" -> Repeat(BlockSize + 1, pad)
       [] OTHER -> <<0>> \o Repeat(pad, pad - 1)

\* The container another implementation writes for the plaintext inner \o tail,
\* with the identifiers and parameters ConvertPrivateKeyToPKCS8 writes.
ProduceWithTail(inner, password, kind) ==
  LET salt == RandRead(1, SaltSize)
      iv == RandRead(2, BlockSize)
      key == PBKDF2Key(password, salt, IterationCount, KeySize, "sha1")
  IN MarshalEncryptedPrivateKeyInfo(
       oidPBES2, oidPKCS5PBKDF2, <<EncOctets(salt), EncInt(IterationCount)>>,
       oidAES256CBC, iv, CBCEncrypt(key, iv, inner \o BadTail(Len(inner), kind)))

\* The caller receives a container whose plaintext is the key's PrivateKeyInfo
\* followed by bytes that are no valid padding.
ProducePadded(kind) ==
  /\ made.by = "none"
  /\ priv \in SupportedKeys
  /\ der' = ProduceWithTail(convertPrivateKeyToPKCS8(priv).der, FixturePassword, kind)
  /\ made' = [by |-> "producer", v |-> <<FixturePassword>>, mods |-> kind, form |-> OwnForm]
  /\ UNCHANGED <<priv, ret, kdfVars>>

\* ParsePKCS8PrivateKey(der, v...)
Parse(v) ==
  /\ der # <<>> /\ ret.op # "parse"
  /\ ParseReturned(v, ParsePKCS8PrivateKey(der, v))
  /\ UNCHANGED <<priv, der, made, kdfVars>>

Next ==
  \/ \E v \in PasswordArgs, rs \in 1..MaxRand, ri \in 1..MaxRand, spare \in 0..MaxSpare :
       Convert(v, rs, ri, spare)
  \/ \E f \in Forms : Produce(f)
  \/ AppendTrailing(0)
  \/ \E first \in BOOLEAN : Corrupt(first)
  \/ \E kind \in MisalignKinds : Misalign(kind)
  \/ \E kind \in PaddingKinds : ProducePadded(kind)
  \/ \E v \in PasswordArgs : Parse(v)

Spec == Init /\ [][Next]_vars

\* ------------------------------------------------------ registry operations
InitKDF == CodecIdle /\ KDFIdle

KDFRet(op, oid, found, factory, err) ==
  [NoKDFRet EXCEPT !.op = op, !.oid = oid, !.found = found, !.factory = factory,
                   !.err = err]

\* RegisterKDF(oid, factory)
Register(oid, factory) ==
  /\ Len(regLog) < MaxRegs
  /\ kdfRegistry' = RegisterKDF(kdfRegistry, oid, factory)
  /\ regLog' = Append(regLog, [oid |-> oid, factory |-> factory])
  /\ kdfRet' = KDFRet("register", oid, TRUE, factory, "")
  /\ UNCHANGED codecVars

LookedUp(oid, l) == kdfRet' = KDFRet("lookup", oid, l.found, l.factory, "")

Lookup(oid) ==
  /\ LookedUp(oid, LookupKDF(kdfRegistry, oid))
  /\ UNCHANGED <<codecVars, kdfRegistry, regLog>>

Resolved(oid, r) == kdfRet' = KDFRet("resolve", oid, r.err = "", r.params, r.err)

Resolve(oid) ==
  /\ Resolved(oid, ResolveKDF(kdfRegistry, oid))
  /\ UNCHANGED <<codecVars, kdfRegistry, regLog>>

NextRegistry ==
  \/ \E oid \in KDFOIDs, factory \in Factories : Register(oid, factory)
  \/ \E oid \in KDFOIDs : Lookup(oid)
  \/ \E oid \in KDFOIDs : Resolve(oid)

SpecRegistry == InitKDF /\ [][NextRegistry]_vars

\* ------------------------------------------------------ DeriveKey operations
\* PBKDF2 parameters a container can carry.
PRFs ==
  {NoOID, oidHMACWithMD5, oidHMACWithSHA1, oidHMACWithSHA224, oidHMACWithSHA256,
   oidHMACWithSHA384, oidHMACWithSHA512, oidHMACWithSHA512_224, oidHMACWithSHA512_256,
   oidHMACUnknown}

ParamSet ==
  [Salt : {RandRead(r, SaltSize) : r \in 1..MaxRand}, IterationCount : {1, IterationCount},
   KeyLength : {0, 16, KeySize}, PRF : PRFs]

Derived(p, password, size, r) ==
  kdfRet' = [NoKDFRet EXCEPT !.op = "derive", !.p = p, !.password = password,
                             !.size = size, !.key = r.key, !.err = r.err]

\* p.DeriveKey(password, size)
Derive(p, password, size) ==
  /\ kdfRet.op = "none"
  /\ Derived(p, password, size, DeriveKey(p, password, size))
  /\ UNCHANGED <<codecVars, kdfRegistry, regLog>>

\* The options a caller can encrypt with, and the key sizes it can ask for.
OptsSet == [SaltSize : {SaltSize}, IterationCount : {1, IterationCount}, HMACHash : Hashes]

Sizes == {0, 16, KeySize}

OptsDerived(p, password, salt, size, r) ==
  kdfRet' = [NoKDFRet EXCEPT !.op = "optsDerive", !.opts = p, !.password = password,
                             !.salt = salt, !.size = size, !.key = r.key, !.p = r.params, !.err = r.err]

\* opts.DeriveKey(password, salt, size)
OptsDerive(p, password, salt, size, linked) ==
  /\ kdfRet.op = "none"
  /\ linked \in LinkedOutcomes(p.HMACHash)
  /\ OptsDerived(p, password, salt, size, PBKDF2OptsDeriveKey(p, password, salt, size, linked))
  /\ UNCHANGED <<codecVars, kdfRegistry, regLog>>

BackDerived(size, r) ==
  kdfRet' = [kdfRet EXCEPT !.op = "deriveBack",
                           !.back = [size |-> size, key |-> r.key, err |-> r.err]]

\* params.DeriveKey(password, size) on the params opts.DeriveKey returned.
DeriveBack(size) ==
  /\ kdfRet.op = "optsDerive" /\ kdfRet.err = ""
  /\ BackDerived(size, DeriveKey(kdfRet.p, kdfRet.password, size))
  /\ UNCHANGED <<codecVars, kdfRegistry, regLog>>

NextKDF ==
  \/ \E p \in ParamSet, password \in Passwords, size \in {16, KeySize} :
       Derive(p, password, size)
  \/ \E p \in OptsSet, password \in Passwords, r \in 1..MaxRand, size \in Sizes,
        linked \in BOOLEAN :
       OptsDerive(p, password, RandRead(r, p.SaltSize), size, linked)
  \/ \E size \in Sizes : DeriveBack(size)

SpecKDF == InitKDF /\ [][NextKDF]_vars

\* ------------------------------------------------------------- error kinds
\* The errors of the structural decoders.
MalformedDER ==
  {"pkcs8: only PKCS #5 v2.0 supported", "asn1: structure error",
   "asn1: syntax error: trailing data"}

\* The errors that name a key the package cannot serialize.
UnsupportedKeyType == {"pkcs8: unknown elliptic curve", "x509: unknown elliptic curve"}

\* The errors that tell the caller a password is missing: the code has none.
MissingPassword == {}

\* --------------------------------------------------------------- the cases
\* The last call parsed the bytes ConvertPrivateKeyToPKCS8 returned.
ParsedOwn == ret.op = "parse" /\ made.by = "convert"

\* The last call parsed, with a password, the bytes another implementation wrote.
ParsedProduced == ret.op = "parse" /\ made.by = "producer" /\ ret.v # <<>>

\* The container names PBES2, PBKDF2 and AES-256-CBC.
AllSupported ==
  /\ made.form.outer = oidPBES2
  /\ made.form.kdf = oidPKCS5PBKDF2
  /\ made.form.cipher = oidAES256CBC

\* The forms of encryptedRSA2048aes, encryptedRSA2048des3 and encryptedEC256aes:
\* PBES2, PBKDF2 with a salt, 2048 iterations, no keyLength and the PRF
\* hmacWithSHA256, under AES-256-CBC or DES-EDE3-CBC.
FixtureForms ==
  {f \in Forms : /\ f.outer = oidPBES2 /\ f.kdf = oidPKCS5PBKDF2 /\ f.shape = "pbes2"
                 /\ f.keyLen = 0 /\ f.prf = oidHMACWithSHA256}

\* What the producer's form says is what the bytes of the container say.
FormInDER ==
  (made.by = "producer" /\ made.mods = "none" /\ made.form.shape = "pbes2") =>
    /\ UnmarshalEncryptedPrivateKeyInfo(der).IdPBES2 = made.form.outer
    /\ UnmarshalEncryptedPrivateKeyInfo(der).IdPBKDF2 = made.form.kdf
    /\ UnmarshalEncryptedPrivateKeyInfo(der).EncryAlgo = made.form.cipher
    /\ made.form.kdf = oidPKCS5PBKDF2 =>
         /\ UnmarshalPBKDF2Params(RawKDFParams(der)).KeyLength = made.form.keyLen
         /\ UnmarshalPBKDF2Params(RawKDFParams(der)).PRF = made.form.prf
         /\ UnmarshalPBKDF2Params(RawKDFParams(der)).IterationCount = IterationCount

\* ---------------------------------------------------------------------- C1
\* C1: serializing a supported key, with a password or without one, succeeds,
\* and parsing the bytes with the same password argument returns a key equal
\* to the original and no error.
C1_RoundTrip ==
  /\ (ret.op = "convert" /\ priv \in SupportedKeys) => ret.err = ""
  /\ (ParsedOwn /\ made.mods = "none" /\ priv \in SupportedKeys /\ ret.v = made.v) =>
       ret.err = "" /\ ret.key = priv

\* Whatever ConvertPrivateKeyToPKCS8 did return for a supported key parses back
\* to that key under the same password argument.
RoundTripWhenSerialized ==
  (ParsedOwn /\ made.mods = "none" /\ priv \in SupportedKeys /\ ret.v = made.v) =>
    ret.err = "" /\ ret.key = priv

RoundTripWitness ==
  ParsedOwn /\ made.mods = "none" /\ priv \in SupportedKeys /\ ret.v = made.v /\ ret.v # <<>>

\* ---------------------------------------------------------------------- C2
\* C2 as stated: parsing a container encrypted under pw with ANY other password
\* fails with "pkcs8: incorrect password" and returns no key.
C2_AnyOtherPassword ==
  (ParsedOwn /\ made.mods = "none" /\ made.v # <<>> /\ ret.v # <<>>
     /\ ret.v[1] # made.v[1]) =>
    ret.err = "pkcs8: incorrect password" /\ ret.key = NoKey

\* C2, amended: parsing a container encrypted under pw with a password that is
\* another HMAC key than pw (it differs from pw other than by trailing zero
\* bytes) fails with "pkcs8: incorrect password" and returns no key; and when
\* parsing a container with a corrupted ciphertext under the right password
\* fails, it fails with that same error.
C2_WrongPassword ==
  /\ (ParsedOwn /\ made.mods = "none" /\ made.v # <<>> /\ ret.v # <<>>
        /\ HMACKey(ret.v[1]) # HMACKey(made.v[1])) =>
       ret.err = "pkcs8: incorrect password" /\ ret.key = NoKey
  /\ (ParsedOwn /\ made.mods \in {"corrupt-first", "corrupt-last"} /\ ret.v = made.v
        /\ ret.err # "") =>
       ret.err = "pkcs8: incorrect password" /\ ret.key = NoKey

\* A two-byte password was tried on a container encrypted under another
\* password of the same first byte, and was refused.
C2_Witness ==
  /\ ParsedOwn /\ made.mods = "none" /\ made.v # <<>> /\ ret.v # <<>>
  /\ Len(ret.v[1]) = 2 /\ Len(made.v[1]) = 1 /\ ret.v[1][1] = made.v[1][1]
  /\ HMACKey(ret.v[1]) # HMACKey(made.v[1])
  /\ ret.err = "pkcs8: incorrect password"

C4_UnsupportedReported ==
  (ParsedProduced /\ made.mods = "none") =>
    /\ made.form.outer # oidPBES2 => ret.err = "pkcs8: only PBES2 supported"
    /\ (made.form.outer = oidPBES2 /\ made.form.kdf # oidPKCS5PBKDF2) =>
         ret.err = "pkcs8: only PBKDF2 supported"
    /\ (made.form.outer = oidPBES2 /\ made.form.kdf = oidPKCS5PBKDF2
          /\ made.form.cipher # oidAES256CBC) =>
         ret.err = "pkcs8: only AES-256-CBC supported"
    /\ ~AllSupported => ret.err \notin MalformedDER

\* The three errors come in that order for the containers whose parameters have
\* the layout of PBES2 parameters.
UnsupportedReportedWhenDecodable ==
  (ParsedProduced /\ made.mods = "none" /\ made.form.shape = "pbes2") =>
    /\ made.form.outer # oidPBES2 => ret.err = "pkcs8: only PBES2 supported"
    /\ (made.form.outer = oidPBES2 /\ made.form.kdf # oidPKCS5PBKDF2) =>
         ret.err = "pkcs8: only PBKDF2 supported"
    /\ (made.form.outer = oidPBES2 /\ made.form.kdf = oidPKCS5PBKDF2
          /\ made.form.cipher # oidAES256CBC) =>
         ret.err = "pkcs8: only AES-256-CBC supported"

\* ---------------------------------------------------------------------- C5
\* C5: every fixture of the test suite, the unencrypted ones without a password
\* and the encrypted ones (the DES-EDE3-CBC one included) with their password,
\* parses to its key with no error.
C5_FixturesParse ==
  /\ (ParsedOwn /\ made.mods = "none" /\ priv \in SupportedKeys /\ made.v = <<>>
        /\ ret.v = <<>>) =>
       ret.err = "" /\ ret.key = priv
  /\ (ParsedProduced /\ made.mods = "none" /\ made.form \in FixtureForms
        /\ ret.v = made.v) =>
       ret.err = "" /\ ret.key = priv

\* ---------------------------------------------------------------------- C6
\* C6: a container whose PBKDF2 parameters declare a key length other than the
\* key size of its cipher is rejected with the key-length error and yields no
\* key; DeriveKey returns a key of the requested size or that error.
C6_KeyLengthEnforced ==
  /\ (ParsedProduced /\ made.mods = "none" /\ AllSupported
        /\ made.form.keyLen \notin {0, KeySize}) =>
       ret.err = "pkcs8: key length missmatch" /\ ret.key = NoKey
  /\ kdfRet.op = "derive" =>
       \/ kdfRet.err = "" /\ Len(kdfRet.key) = kdfRet.size
       \/ kdfRet.err # "" /\ kdfRet.key = <<>>

\* ---------------------------------------------------------------------- C7
\* C7: serializing a key of an unsupported type fails with the
\* unsupported-key-type error and produces no bytes.
C7_UnsupportedKeyRejected ==
  (ret.op = "convert" /\ made.mods = "none" /\ priv \in UnsupportedKeys) =>
    ret.err \in UnsupportedKeyType /\ der = <<>>

\* ---------------------------------------------------------------------- C8
\* The factory the registry is to hold for oid: the one of the latest
\* RegisterKDF call for oid, before any such call the PBKDF2 factory for the
\* PBKDF2 identifier and none for the others.
LastRegistered(oid) ==
  LET idx == {i \in 1..Len(regLog) : regLog[i].oid = oid}
  IN IF idx # {} THEN regLog[CHOOSE i \in idx : \A j \in idx : j <= i].factory
     ELSE IF oid = oidPKCS5PBKDF2 THEN "pbkdf2Params"
     ELSE NoFactory

\* C8: a lookup returns the factory most recently registered for the
\* identifier; resolving an identifier that has none fails with
\* UnsupportedKDF; after package initialization the PBKDF2 identifier resolves
\* to an empty PBKDF2 parameter value.
C8_Registry ==
  /\ \A oid \in KDFOIDs :
       /\ LookupKDF(kdfRegistry, oid).factory = LastRegistered(oid)
       /\ LookupKDF(kdfRegistry, oid).found = (LastRegistered(oid) # NoFactory)
  /\ kdfRet.op = "lookup" =>
       /\ kdfRet.factory = LastRegistered(kdfRet.oid)
       /\ kdfRet.found = (LastRegistered(kdfRet.oid) # NoFactory)
  /\ kdfRet.op = "resolve" =>
       IF LastRegistered(kdfRet.oid) = NoFactory
       THEN kdfRet.err = "UnsupportedKDF" /\ kdfRet.factory = NoFactory
       ELSE kdfRet.err = "" /\ kdfRet.factory = LastRegistered(kdfRet.oid)
  /\ (kdfRet.op = "resolve" /\ kdfRet.oid = oidPKCS5PBKDF2 /\ regLog = <<>>) =>
       kdfRet.err = "" /\ NewParams(kdfRet.factory) = EmptyPBKDF2Params

\* An identifier was registered twice, with different factories, and looked up.
C8_Witness ==
  /\ Len(regLog) = 2 /\ regLog[1].oid = regLog[2].oid
  /\ regLog[1].factory # regLog[2].factory
  /\ kdfRet.op = "lookup" /\ kdfRet.oid = regLog[2].oid
  /\ kdfRet.factory = regLog[2].factory

\* ---------------------------------------------------------------------- C9
\* The hash each PRF identifier selects, HMAC-SHA1 when the field is absent.
SelectedHash(prf) ==
  CASE prf = NoOID -> "sha1"
    [] prf = oidHMACWithMD5 -> "md5"
    [] prf = oidHMACWithSHA1 -> "sha1"
    [] prf = oidHMACWithSHA224 -> "sha224"
    [] prf = oidHMACWithSHA256 -> "sha256"
    [] prf = oidHMACWithSHA384 -> "sha384"
    [] prf = oidHMACWithSHA512 -> "sha512"
    [] prf = oidHMACWithSHA512_224 -> "sha512_224"
    [] prf = oidHMACWithSHA512_256 -> "sha512_256"
    [] OTHER -> NoHash

\* C9: the PRF field selects the hash (HMAC-SHA1 when absent, an error for an
\* unsupported identifier), and the decrypt pipeline derives the key with the
\* hash so selected: a container written under a supported PRF decrypts under
\* its password, one naming an unsupported PRF is refused for its PRF.
C9_PRFSelected ==
  /\ (ParsedProduced /\ made.mods = "none" /\ AllSupported
        /\ made.form.keyLen \in {0, KeySize} /\ ret.v = made.v) =>
       IF SelectedHash(made.form.prf) = NoHash
       THEN ret.err = "pkcs8: unsupported hash function" /\ ret.key = NoKey
       ELSE ret.err = "" /\ ret.key = priv
  /\ (kdfRet.op = "derive" /\ kdfRet.err = "") =>
       kdfRet.key = PBKDF2Key(kdfRet.password, kdfRet.p.Salt, kdfRet.p.IterationCount,
                              kdfRet.size, SelectedHash(kdfRet.p.PRF))

\* DeriveKey of kdf_pbkdf2.go: an unsupported PRF is an error; then a declared
\* key length other than the requested size is the key-length error; otherwise
\* the key has the requested size and is derived with the selected hash.
DeriveKeyChecks ==
  kdfRet.op = "derive" =>
    IF SelectedHash(kdfRet.p.PRF) = NoHash
    THEN kdfRet.err = "pkcs8: unsupported hash function" /\ kdfRet.key = <<>>
    ELSE IF kdfRet.p.KeyLength \notin {0, kdfRet.size}
    THEN kdfRet.err = "pkcs8: key length missmatch" /\ kdfRet.key = <<>>
    ELSE /\ kdfRet.err = "" /\ Len(kdfRet.key) = kdfRet.size
         /\ kdfRet.key = PBKDF2Key(kdfRet.password, kdfRet.p.Salt,
                                   kdfRet.p.IterationCount, kdfRet.size,
                                   SelectedHash(kdfRet.p.PRF))

\* --------------------------------------------------------------------- C10
\* C10: a complete valid structure followed by trailing bytes is rejected as
\* malformed, on the unencrypted path and on the encrypted path.
C10_TrailingRejected ==
  (ParsedOwn /\ made.mods = "trailing" /\ priv \in SupportedKeys /\ ret.v = made.v) =>
    ret.err \in MalformedDER /\ ret.key = NoKey

\* On both paths the trailing bytes are ignored and the key is returned.
TrailingIgnored ==
  (ParsedOwn /\ made.mods = "trailing" /\ priv \in SupportedKeys /\ ret.v = made.v) =>
    ret.err = "" /\ ret.key = priv

\* --------------------------------------------------------------------- C11
\* The plaintext the encrypt path enciphered: the ciphertext of the container
\* der deciphered under the key of password.
PlaintextOf(privKey, password) ==
  CBCDecrypt(PBKDF2Key(password, privKey.Salt, privKey.IterationCount, KeySize, "sha1"),
             privKey.IV, privKey.EncryptedData)

\* plain is inner followed by p = 16 - (n mod 16) bytes of value p, and the
\* ciphertext is as long as plain.
PaddedAs(inner, plain, data) ==
  LET n == Len(inner)
      p == 16 - (n % 16)
  IN /\ 1 <= p /\ p <= 16
     /\ Len(data) = n + p /\ Len(data) % 16 = 0 /\ Len(data) > n
     /\ Len(plain) = n + p
     /\ Take(plain, n) = inner
     /\ \A i \in (n + 1)..(n + p) : plain[i] = p

\* The last call serialized, with a password, a key that has an inner encoding.
EncryptedInner ==
  /\ ret.op = "convert" /\ ret.v # <<>> /\ made.mods = "none"
  /\ convertPrivateKeyToPKCS8(priv).err = ""

\* C11: for every inner plaintext of length n the encrypt path appends
\* p = 16 - (n mod 16) bytes of value p, leaves the first n bytes unchanged and
\* produces a ciphertext of length n + p; the padding step completes without a
\* run-time failure whatever the spare capacity of the plaintext buffer.
C11_Padding ==
  EncryptedInner =>
    /\ ret.err = ""
    /\ PaddedAs(convertPrivateKeyToPKCS8(priv).der,
                PlaintextOf(UnmarshalEncryptedPrivateKeyInfo(der), ret.v[1]),
                UnmarshalEncryptedPrivateKeyInfo(der).EncryptedData)

\* Whenever the encrypt path returns at all, the padding is as stated.
PaddingWhenReturned ==
  (EncryptedInner /\ ret.err = "") =>
    PaddedAs(convertPrivateKeyToPKCS8(priv).der,
             PlaintextOf(UnmarshalEncryptedPrivateKeyInfo(der), ret.v[1]),
             UnmarshalEncryptedPrivateKeyInfo(der).EncryptedData)

\* An inner plaintext of a whole number of blocks was padded with a full block.
PaddingWitness ==
  /\ EncryptedInner /\ ret.err = ""
  /\ Len(convertPrivateKeyToPKCS8(priv).der) % 16 = 0
  /\ Len(UnmarshalEncryptedPrivateKeyInfo(der).EncryptedData)
       = Len(convertPrivateKeyToPKCS8(priv).der) + 16

\* --------------------------------------------------------------------- C12
\* C12: for a structurally decodable container with supported identifiers
\* whose ciphertext is not a multiple of 16 bytes, or whose IV is not 16 bytes,
\* the decrypt path returns the malformed-DER error to the caller; it does not
\* panic and returns no key.
C12_MisalignedRejected ==
  (ret.op = "parse" /\ made.mods \in MisalignKinds /\ ret.v # <<>>) =>
    ret.err \in MalformedDER /\ ret.key = NoKey

\* What the decrypt path does with such a container: the cipher panics.
MisalignedPanics ==
  (ret.op = "parse" /\ made.mods \in MisalignKinds /\ ret.v # <<>>) =>
    /\ ret.key = NoKey
    /\ ret.err = IF made.mods = "short-iv"
                 THEN "panic: cipher.NewCBCDecrypter: IV length must equal block size"
                 ELSE "panic: crypto/cipher: input not full blocks"

\* --------------------------------------------------------------------- C13
\* The last byte p of plain is a count 1..16 and the last p bytes all equal p.
ValidPadding(plain) ==
  /\ Len(plain) > 0
  /\ LET p == plain[Len(plain)]
     IN /\ 1 <= p /\ p <= 16 /\ p <= Len(plain)
        /\ \A i \in (Len(plain) - p + 1)..Len(plain) : plain[i] = p

\* plain without its padding.
Unpadded(plain) == Take(plain, Len(plain) - plain[Len(plain)])

\* What the claim lets a parse return for the deciphered plaintext plain.
UnpaddingDecides(plain, r) ==
  IF ValidPadding(plain) /\ r.err = ""
  THEN ret.err = "" /\ ret.key = r.key
  ELSE ret.err = "pkcs8: incorrect password" /\ ret.key = NoKey

\* The last call parsed, with a password, a container of supported identifiers
\* and whole blocks.
DecryptedOwn ==
  /\ ret.op = "parse" /\ ret.v # <<>> /\ made.v # <<>> /\ made.form = OwnForm
  /\ made.mods \in {"none", "corrupt-first", "corrupt-last"} \cup PaddingKinds

\* C13: the decrypt path accepts the deciphered plaintext only if its last
\* byte p is in 1..16 and the last p bytes all equal p, and decodes the
\* PrivateKeyInfo from the plaintext without those p bytes; any other
\* plaintext is refused with the decryption-failure error, even when its
\* leading bytes decode as a valid PrivateKeyInfo.
C13_UnpaddingValidated ==
  DecryptedOwn =>
    UnpaddingDecides(
      PlaintextOf(UnmarshalEncryptedPrivateKeyInfo(der), ret.v[1]),
      x509ParsePKCS8PrivateKey(
        Unpadded(PlaintextOf(UnmarshalEncryptedPrivateKeyInfo(der), ret.v[1]))))

\* A plaintext whose tail is no valid padding is accepted under its password:
\* the key is returned and no error.
BadPaddingAccepted ==
  (ret.op = "parse" /\ made.mods \in PaddingKinds /\ ret.v = made.v) =>
    /\ ~ValidPadding(PlaintextOf(UnmarshalEncryptedPrivateKeyInfo(der), ret.v[1]))
    /\ ret.err = "" /\ ret.key = priv

\* --------------------------------------------------------------------- C14
\* C14: if opts.DeriveKey(password, salt, size) returns (key, params) without
\* error, params hold the salt, the iteration count, the hash and size as the
\* key length, params.DeriveKey(password, size) returns the same key without
\* error and params.DeriveKey(password, size2) for size2 # size fails with the
\* key-length error; for an unsupported hash opts.DeriveKey returns an error
\* with a nil key and nil params.
C14_DirectionsAgree ==
  /\ (kdfRet.op \in {"optsDerive", "deriveBack"}
        /\ kdfRet.opts.HMACHash \in SupportedHashes) =>
       /\ kdfRet.err = ""
       /\ kdfRet.p.IterationCount = kdfRet.opts.IterationCount
       /\ kdfRet.p.Salt = kdfRet.salt
       /\ kdfRet.p.KeyLength = kdfRet.size
       /\ SelectedHash(kdfRet.p.PRF) = kdfRet.opts.HMACHash
  /\ kdfRet.op = "deriveBack" =>
       IF kdfRet.back.size = kdfRet.size
       THEN kdfRet.back.err = "" /\ kdfRet.back.key = kdfRet.key
       ELSE kdfRet.back.err = "pkcs8: key length missmatch" /\ kdfRet.back.key = <<>>
  /\ (kdfRet.op = "optsDerive" /\ kdfRet.opts.HMACHash \notin SupportedHashes) =>
       /\ kdfRet.err = "pkcs8: unsupported hash function"
       /\ kdfRet.key = <<>> /\ kdfRet.p = NilParams

\* The two directions agree for the supported hashes and the sizes above 0; an
\* unsupported hash that is linked in is the error, with no key and no params.
DirectionsAgreeWhenLinked ==
  /\ (kdfRet.op \in {"optsDerive", "deriveBack"}
        /\ kdfRet.opts.HMACHash \in SupportedHashes) =>
       /\ kdfRet.err = ""
       /\ kdfRet.p.Salt = kdfRet.salt
       /\ kdfRet.p.IterationCount = kdfRet.opts.IterationCount
       /\ kdfRet.p.KeyLength = kdfRet.size
       /\ SelectedHash(kdfRet.p.PRF) = kdfRet.opts.HMACHash
  /\ (kdfRet.op = "deriveBack" /\ kdfRet.size > 0) =>
       IF kdfRet.back.size = kdfRet.size
       THEN kdfRet.back.err = "" /\ kdfRet.back.key = kdfRet.key
       ELSE kdfRet.back.err = "pkcs8: key length missmatch" /\ kdfRet.back.key = <<>>
  /\ (kdfRet.op = "optsDerive" /\ kdfRet.opts.HMACHash = "sha3_256"
        /\ kdfRet.err # "panic: crypto: requested hash function is unavailable") =>
       /\ kdfRet.err = "pkcs8: unsupported hash function"
       /\ kdfRet.key = <<>> /\ kdfRet.p = NilParams

\* A key length of 0 in the params is an absent key length: after size 0 the
\* params derive a key of any size.
ZeroSizeUnchecked ==
  (kdfRet.op = "deriveBack" /\ kdfRet.size = 0) =>
    kdfRet.back.err = "" /\ Len(kdfRet.back.key) = kdfRet.back.size
====
